---- MODULE Spec2Model ----
(***************************************************************************)
(* Model of the download coordinator of ytermusic                          *)
(* (src/systems/download.rs) and of its caller in src/term/search.rs.      *)
(*                                                                         *)
(* Threads of control:                                                     *)
(*   - the tokio tasks spawned by start_task (pool workers) and            *)
(*     start_task_unary (one-shot tasks), one record per task;        *)
(*   - the "ui" thread, which runs Search::on_key_press (Enter): it sends  *)
(*     Cleanup, calls download::clean and then download::add;              *)
(*   - the "ctl" thread, any other caller of the public functions add and  *)
(*     start_task_unary;                                                   *)
(*   - the thread that main() starts to run clean() of src/main.rs over    *)
(*     the downloads directory;                                            *)
(*   - the Player Controller, the consumer of the SoundActions, described  *)
(*     by section 4.3 of the specification.                                *)
(* Every step is one access to a shared object (a mutex-guarded static,    *)
(* the atomic flag, the channel, a file of the cache directory).           *)
(*                                                                         *)
(* JoinHandle::abort cancels a task at its next suspension point: a task   *)
(* suspended in an .await never runs again, a task that is running keeps   *)
(* running its synchronous code until it reaches the next .await.          *)
(*                                                                         *)
(* The tasks are kept as a bag (multiset) of task records: tasks have no   *)
(* name in the code, and two tasks at the same place with the same track   *)
(* are interchangeable.  HANDLES is the part of the bag whose records have *)
(* aborted = FALSE: every spawn pushes its JoinHandle, clean() aborts and  *)
(* drops them all.                                                         *)
(***************************************************************************)
EXTENDS Integers, Sequences, FiniteSets, TLC

\* ---------------------------------------------------------------- bounds
\* calls made to the download system in one behaviour: add(),
\* start_task_unary(), Enter on the search screen (clean() and add()), a store
\* of false to DOWNLOAD_MORE
MaxCalls == 2

\* ------------------------------------------------------------- constants
DOWNLOADER_COUNT == 4

Ids == {"A", "B"}     \* track identities (Video.video_id)
NoId == "none"

Callers == {"ui", "ctl"}

VARIABLES
    queue,          \* DOWNLOAD_QUEUE : VecDeque<Video>
    inDownload,     \* IN_DOWNLOAD : Vec<Video>
    downloadMore,   \* DOWNLOAD_MORE : AtomicBool
    json,           \* identities whose sidecar downloads/<id>.json exists
    mp4,            \* identities whose media file downloads/<id>.mp4 exists
    bus,            \* every SoundAction sent on the channel, in send order
    tasks,          \* bag of the spawned tasks: [kind, pc, id, aborted] -> copies
    callPc,         \* caller thread -> position
    callId,         \* caller thread -> the Video it is handling
    spawned,        \* loop counter of downloader() inside clean()
    written,        \* identity -> number of std::fs::write calls of its sidecar
    nCalls,         \* calls made so far
    sinceClean,     \* "yes": clean() has returned and no download was requested
                    \* since it began; "cleaning": it runs, none requested yet
    cleanPc,        \* position of the thread that runs clean() of main.rs
    entries,        \* clean(): the directory entries read_dir has still to yield
    cleanPath,      \* clean(): the entry of the current iteration (path)
    strays,         \* the files of downloads/ that are not <id>.mp4 or <id>.json
    dir0,           \* the content of downloads/ when the process started
    player,         \* the Player Controller: Current Slot, Upcoming Queue,
                    \* Previous Stack and the state of the Audio Sink
    delivered,      \* number of SoundActions the Player Controller has received
    stale,          \* positions in bus of the "ready" sent by tasks that a
                    \* clean() had aborted
    rxDropped,      \* the Receiver<SoundAction> of the channel has been dropped
    musics,         \* App.musics: the position (MusicStatusAction) of each row
    mouse,          \* the mouse event that on_mouse_press handled last
    clicks,         \* number of mouse events handled
    screen,         \* Manager.current_screen
    loopPc,         \* Manager::run: "run" in the loop, "ended" after it
    errs,           \* number of Errors handed to the DeviceLost screen
    last,           \* the input that Manager::run handled last, the answer of
                    \* a screen whose code is not at hand, and what
                    \* handle_manager_message / handle_event returned
    onlyChange,     \* every input handled so far was a ChangeState message
    nMsgs,          \* number of inputs handled by Manager::run
    items,          \* Search.items: the Videos of the result list
    selected,       \* Search.selected
    searches,       \* the spawned search tasks: [pc, found]
    typed,          \* number of keys that changed Search.text
    misses,         \* number of Enter keys that found no item
    returns         \* number of Enter keys on an item whose handler returned

\* the state of the startup cleanup / of the Player Controller
cleanVars == <<cleanPc, entries, cleanPath, strays, dir0>>
playerVars == <<player, delivered, stale>>
\* the far end of the channel and the terminal side
mouseVars == <<musics, mouse, clicks>>
managerVars == <<screen, loopPc, errs, last, onlyChange, nMsgs>>
searchVars == <<items, selected, searches, typed, misses, returns>>
termVars == <<rxDropped, mouseVars, managerVars, searchVars>>

vars == <<queue, inDownload, downloadMore, json, mp4, bus, tasks,
          callPc, callId, spawned, written, nCalls, sinceClean,
          cleanPc, entries, cleanPath, strays, dir0, player, delivered, stale,
          rxDropped, musics, mouse, clicks,
          screen, loopPc, errs, last, onlyChange, nMsgs,
          items, selected, searches, typed, misses, returns>>

\* ------------------------------------------------------------- messages
PlayVideo(v) == [type |-> "PlayVideo", id |-> v]
PlayVideoUnary(v) == [type |-> "PlayVideoUnary", id |-> v]
Cleanup == [type |-> "Cleanup", id |-> NoId]
\* SoundAction::Next(n), Previous(n), PlayPause
SoundNext(k) == [type |-> "Next", id |-> NoId, n |-> k]
SoundPrevious(k) == [type |-> "Previous", id |-> NoId, n |-> k]
PlayPause == [type |-> "PlayPause", id |-> NoId]
ForcePause == [type |-> "ForcePause", id |-> NoId]
ForcePlay == [type |-> "ForcePlay", id |-> NoId]
SoundRestartPlayer == [type |-> "RestartPlayer", id |-> NoId]

\* ---------------------------------------------------------------- tasks
Task(kind, pc, v, ab) == [kind |-> kind, pc |-> pc, id |-> v, aborted |-> ab]

TaskSet == DOMAIN tasks
Copies(r) == IF r \in DOMAIN tasks THEN tasks[r] ELSE 0

\* one more task r / one task r less
BagAdd(b, r) ==
    IF r \in DOMAIN b THEN [b EXCEPT ![r] = @ + 1]
    ELSE [x \in DOMAIN b \cup {r} |-> IF x = r THEN 1 ELSE b[x]]
BagRemove(b, r) ==
    IF b[r] = 1 THEN [x \in DOMAIN b \ {r} |-> b[x]]
    ELSE [b EXCEPT ![r] = @ - 1]

\* task r goes on as r2 / task r ends
Becomes(r, r2) == tasks' = BagAdd(BagRemove(tasks, r), r2)
Ends(r) == tasks' = BagRemove(tasks, r)

\* The task reaches an .await that returns Pending (sleep): it is suspended
\* there, or, if abort() was called on it, it is dropped there.
Suspend(r) ==
    IF r.aborted THEN Ends(r) ELSE Becomes(r, Task("pool", "sleep", NoId, FALSE))

\* The end of one pass of the task body: the pool worker loops with k = true
\* (no sleep), the unary task returns.
Finish(r) ==
    IF r.kind = "pool" THEN Becomes(r, Task("pool", "load", NoId, r.aborted))
    ELSE Ends(r)

Ready(r) == IF r.kind = "pool" THEN PlayVideo(r.id) ELSE PlayVideoUnary(r.id)

\* unwrap() that lets the task go on after a failed send
PanicsNot(r) == Finish(r)

\* s.send(..).unwrap() with the receiver dropped: send returns Err and unwrap
\* panics; the runtime catches the panic and the task is finished
Panics(r) == Becomes(r, [r EXCEPT !.pc = "panicked"])

\* Vec::retain(|x| x.video_id != id.video_id)
RECURSIVE Retain(_, _)
Retain(s, v) ==
    IF s = <<>> THEN <<>>
    ELSE IF Head(s) = v THEN Retain(Tail(s), v)
         ELSE <<Head(s)>> \o Retain(Tail(s), v)

InSeq(s, v) == \E i \in 1..Len(s) : s[i] = v

\* the message that task r is sending is recorded as stale when a clean() has
\* aborted r and no download was requested since that clean() began: the
\* track of r was pending or in flight when the reset discarded it
SentBy(r) ==
    IF r.aborted /\ sinceClean \in {"cleaning", "yes"}
    THEN stale \cup {Len(bus) + 1} ELSE stale

\* ------------------------------------------------------ files of downloads/
\* A file name is the sequence of its parts; the path of an entry is
\* downloads/<name>.
FileName(v, ext) == <<v, ".", ext>>
NoPath == <<>>

\* the directory as a set of file names
Dir(js, ms, ss) ==
    {FileName(v, "json") : v \in js} \cup {FileName(v, "mp4") : v \in ms} \cup ss

EmptyDir == [json |-> {}, mp4 |-> {}, strays |-> {}]

\* ---------------------------------------------------- Player Controller
\* volume of the Audio Sink, in percent, and its fixed step
MaxVolume == 100
VolumeStep == 25
StartVolume == 50
\* duration of a track and the fixed step of a seek, in seconds
Duration == 3
SeekStep == 2

\* state NoTrack: no Current Slot, empty Upcoming Queue and Previous Stack
PlayerStart ==
    [current |-> NoId, upcoming |-> <<>>, previous |-> <<>>,
     paused |-> FALSE, volume |-> StartVolume, elapsed |-> 0]

\* no mouse event yet
NoMouse == [kind |-> "none", column |-> 0, row |-> 0, frame |-> <<>>]

\* Manager::run has handled nothing yet
NoInput == [msg |-> [type |-> "none"], resp |-> <<>>, ret |-> FALSE]

\* the channel is connected; App::default: musics: vec![]; Manager::new:
\* current_screen: Screens::Playlist; Search::new: items empty, selected: 0
TermStart ==
    /\ rxDropped = FALSE
    /\ musics = <<>>
    /\ mouse = NoMouse
    /\ clicks = 0
    /\ loopPc = "run"
    /\ errs = 0
    /\ last = NoInput
    /\ onlyChange = TRUE
    /\ nMsgs = 0
    /\ searches = {}
    /\ typed = 0
    /\ misses = 0
    /\ returns = 0

TermInit ==
    /\ TermStart
    /\ screen = "Playlist"
    /\ items = <<>>
    /\ selected = 0

\* the startup cleanup is over and the Player Controller has received nothing
OutsideInit ==
    /\ cleanPc = "done"
    /\ entries = {}
    /\ cleanPath = NoPath
    /\ strays = {}
    /\ dir0 = EmptyDir
    /\ player = PlayerStart
    /\ delivered = 0
    /\ stale = {}

RestInit == TermInit /\ OutsideInit

Init ==
    /\ queue = <<>>
    /\ inDownload = <<>>
    /\ downloadMore = TRUE
    /\ json = {}
    /\ mp4 = {}
    /\ bus = <<>>
    /\ tasks = [r \in {Task("pool", "load", NoId, FALSE)} |-> DOWNLOADER_COUNT]
    /\ callPc = [c \in Callers |-> "idle"]
    /\ callId = [c \in Callers |-> NoId]
    /\ spawned = 0
    /\ written = [v \in Ids |-> 0]
    /\ nCalls = 0
    /\ sinceClean = "no"
    /\ RestInit

\* ------------------------------------------------------- worker actions
\* sleep(Duration::from_millis(200)).await completes
Wake(r) ==
    /\ r.pc = "sleep"
    /\ Becomes(r, [r EXCEPT !.pc = "load"])
    /\ UNCHANGED <<termVars, cleanVars, playerVars, queue, inDownload, downloadMore, json, mp4, bus,
                   callPc, callId, spawned, written, nCalls, sinceClean>>

\* if !DOWNLOAD_MORE.load(SeqCst) { continue }
Load(r) ==
    /\ r.pc = "load"
    /\ IF downloadMore THEN Becomes(r, [r EXCEPT !.pc = "take"]) ELSE Suspend(r)
    /\ UNCHANGED <<termVars, cleanVars, playerVars, queue, inDownload, downloadMore, json, mp4, bus,
                   callPc, callId, spawned, written, nCalls, sinceClean>>

\* Take with take() popping the back of DOWNLOAD_QUEUE (pop_back)
TakeLifo(r) ==
    /\ r.pc = "take"
    /\ IF queue = <<>>
       THEN /\ Suspend(r)
            /\ queue' = queue
       ELSE /\ Becomes(r, [r EXCEPT !.pc = "exists", !.id = queue[Len(queue)]])
            /\ queue' = SubSeq(queue, 1, Len(queue) - 1)
    /\ UNCHANGED <<termVars, cleanVars, playerVars, inDownload, downloadMore, json, mp4, bus,
                   callPc, callId, spawned, written, nCalls, sinceClean>>

\* if let Some(id) = take()
Take(r) ==
    /\ r.pc = "take"
    /\ IF queue = <<>>
       THEN /\ Suspend(r)
            /\ queue' = queue
       ELSE /\ Becomes(r, [r EXCEPT !.pc = "exists", !.id = Head(queue)])
            /\ queue' = Tail(queue)
    /\ UNCHANGED <<termVars, cleanVars, playerVars, inDownload, downloadMore, json, mp4, bus,
                   callPc, callId, spawned, written, nCalls, sinceClean>>

\* if download_path_json.exists() { s.send(PlayVideo(id)); k = true; continue }
Exists(r) ==
    /\ r.pc = "exists"
    /\ IF r.id \in json
       THEN IF rxDropped
            THEN /\ bus' = bus
                 /\ stale' = stale
                 /\ Panics(r)
            ELSE /\ bus' = Append(bus, Ready(r))
                 /\ stale' = SentBy(r)
                 /\ Finish(r)
       ELSE /\ bus' = bus
            /\ stale' = stale
            /\ Becomes(r, [r EXCEPT !.pc = "rm_partial"])
    /\ UNCHANGED <<termVars, cleanVars, player, delivered, queue, inDownload, downloadMore, json, mp4,
                   callPc, callId, spawned, written, nCalls, sinceClean>>

\* if download_path_mp4.exists() { remove_file(&download_path_mp4) }
RmPartial(r) ==
    /\ r.pc = "rm_partial"
    /\ mp4' = mp4 \ {r.id}
    /\ Becomes(r, [r EXCEPT !.pc = "push"])
    /\ UNCHANGED <<termVars, cleanVars, playerVars, queue, inDownload, downloadMore, json, bus,
                   callPc, callId, spawned, written, nCalls, sinceClean>>

\* IN_DOWNLOAD.lock().unwrap().push(id.clone()); then handle_download(..).await
\* is polled for the first time: it suspends on the network (an aborted task
\* is dropped there), or it returns Err at once, without suspending
\* (Id::from_str fails).
Push(r) ==
    /\ r.pc = "push"
    /\ inDownload' = Append(inDownload, r.id)
    /\ \/ IF r.aborted THEN Ends(r) ELSE Becomes(r, [r EXCEPT !.pc = "fetch"])
       \/ Becomes(r, [r EXCEPT !.pc = "e_del"])
    /\ UNCHANGED <<termVars, cleanVars, playerVars, queue, downloadMore, json, mp4, bus,
                   callPc, callId, spawned, written, nCalls, sinceClean>>

\* download_to_dir creates the media file and starts filling it
FetchProgress(r) ==
    /\ r.pc = "fetch"
    /\ r.id \notin mp4
    /\ mp4' = mp4 \cup {r.id}
    /\ UNCHANGED <<termVars, cleanVars, playerVars, queue, inDownload, downloadMore, json, bus, tasks,
                   callPc, callId, spawned, written, nCalls, sinceClean>>

\* handle_download returns Ok(_): the media file is complete
FetchOk(r) ==
    /\ r.pc = "fetch"
    /\ mp4' = mp4 \cup {r.id}
    /\ Becomes(r, [r EXCEPT !.pc = "c_write"])
    /\ UNCHANGED <<termVars, cleanVars, playerVars, queue, inDownload, downloadMore, json, bus,
                   callPc, callId, spawned, written, nCalls, sinceClean>>

\* handle_download returns Err(_)
FetchErr(r) ==
    /\ r.pc = "fetch"
    /\ Becomes(r, [r EXCEPT !.pc = "e_del"])
    /\ UNCHANGED <<termVars, cleanVars, playerVars, queue, inDownload, downloadMore, json, mp4, bus,
                   callPc, callId, spawned, written, nCalls, sinceClean>>

\* CWrite without the write of the sidecar
CWriteNoSidecar(r) ==
    /\ r.pc = "c_write"
    /\ Becomes(r, [r EXCEPT !.pc = "c_retain"])
    /\ UNCHANGED <<termVars, cleanVars, playerVars, queue, inDownload, downloadMore, json, mp4, bus,
                   callPc, callId, spawned, written, nCalls, sinceClean>>

\* Ok(_) => std::fs::write(download_path_json, ..); crate::append(id.clone())
CWrite(r) ==
    /\ r.pc = "c_write"
    /\ json' = json \cup {r.id}
    /\ written' = [written EXCEPT ![r.id] = @ + 1]
    /\ Becomes(r, [r EXCEPT !.pc = "c_retain"])
    /\ UNCHANGED <<termVars, cleanVars, playerVars, queue, inDownload, downloadMore, mp4, bus,
                   callPc, callId, spawned, nCalls, sinceClean>>

\* Ok(_) => IN_DOWNLOAD.lock().unwrap().retain(|x| x.video_id != id.video_id)
CRetain(r) ==
    /\ r.pc = "c_retain"
    /\ inDownload' = Retain(inDownload, r.id)
    /\ Becomes(r, [r EXCEPT !.pc = "c_send"])
    /\ UNCHANGED <<termVars, cleanVars, playerVars, queue, downloadMore, json, mp4, bus,
                   callPc, callId, spawned, written, nCalls, sinceClean>>

\* Ok(_) => s.send(SoundAction::PlayVideo(id)).unwrap(); k = true
CSend(r) ==
    /\ r.pc = "c_send"
    /\ IF rxDropped
       THEN /\ bus' = bus
            /\ stale' = stale
            /\ Panics(r)
       ELSE /\ bus' = Append(bus, Ready(r))
            /\ stale' = SentBy(r)
            /\ Finish(r)
    /\ UNCHANGED <<termVars, cleanVars, player, delivered, queue, inDownload, downloadMore, json, mp4,
                   callPc, callId, spawned, written, nCalls, sinceClean>>

\* Err(_) => if download_path_mp4.exists() { remove_file(download_path_mp4) }
EDel(r) ==
    /\ r.pc = "e_del"
    /\ mp4' = mp4 \ {r.id}
    /\ Becomes(r, [r EXCEPT !.pc = "e_retain"])
    /\ UNCHANGED <<termVars, cleanVars, playerVars, queue, inDownload, downloadMore, json, bus,
                   callPc, callId, spawned, written, nCalls, sinceClean>>

\* ERetain that puts the failed track back into the Pending Queue
ERetainRequeue(r) ==
    /\ r.pc = "e_retain"
    /\ inDownload' = Retain(inDownload, r.id)
    /\ queue' = Append(queue, r.id)
    /\ IF r.kind = "pool" THEN Suspend(r) ELSE Ends(r)
    /\ UNCHANGED <<termVars, cleanVars, playerVars, downloadMore, json, mp4, bus,
                   callPc, callId, spawned, written, nCalls, sinceClean>>

\* Err(_) => IN_DOWNLOAD.retain(..); the pool worker loops with k = false and
\* sleeps, the unary task returns.
ERetain(r) ==
    /\ r.pc = "e_retain"
    /\ inDownload' = Retain(inDownload, r.id)
    /\ IF r.kind = "pool" THEN Suspend(r) ELSE Ends(r)
    /\ UNCHANGED <<termVars, cleanVars, playerVars, queue, downloadMore, json, mp4, bus,
                   callPc, callId, spawned, written, nCalls, sinceClean>>

\* ------------------------------------------------------- caller actions
\* a thread calls add(video, s)
AddCall(v) ==
    /\ callPc["ctl"] = "idle"
    /\ nCalls < MaxCalls
    /\ nCalls' = nCalls + 1
    /\ callPc' = [callPc EXCEPT !["ctl"] = "add_check"]
    /\ callId' = [callId EXCEPT !["ctl"] = v]
    /\ sinceClean' = "no"
    /\ UNCHANGED <<termVars, cleanVars, playerVars, queue, inDownload, downloadMore, json, mp4, bus,
                   tasks, spawned, written>>

\* AddCheck without its fast path: add() pushes whether or not the sidecar
\* exists
AddCheckNoFastPath(c) ==
    /\ callPc[c] = "add_check"
    /\ callPc' = [callPc EXCEPT ![c] = "add_push"]
    /\ sinceClean' = IF c = "ui" THEN "no" ELSE sinceClean
    /\ UNCHANGED <<termVars, cleanVars, playerVars, queue, inDownload, downloadMore, json, mp4, bus, callId,
                   tasks, spawned, written, nCalls>>

\* if download_path_json.exists() { s.send(PlayVideo(video)) } else ..
AddCheck(c) ==
    /\ callPc[c] = "add_check"
    /\ IF callId[c] \in json
       THEN IF rxDropped
            THEN /\ bus' = bus
                 /\ callPc' = [callPc EXCEPT ![c] = "panicked"]
                 /\ callId' = callId
            ELSE /\ bus' = Append(bus, PlayVideo(callId[c]))
                 /\ callPc' = [callPc EXCEPT ![c] = "idle"]
                 /\ callId' = [callId EXCEPT ![c] = NoId]
       ELSE /\ bus' = bus
            /\ callPc' = [callPc EXCEPT ![c] = "add_push"]
            /\ callId' = callId
    /\ sinceClean' = IF c = "ui" THEN "no" ELSE sinceClean
    /\ UNCHANGED <<termVars, cleanVars, playerVars, queue, inDownload, downloadMore, json, mp4,
                   tasks, spawned, written, nCalls>>

\* .. else { DOWNLOAD_QUEUE.lock().unwrap().push_back(video) }
AddPush(c) ==
    /\ callPc[c] = "add_push"
    /\ queue' = Append(queue, callId[c])
    /\ callPc' = [callPc EXCEPT ![c] = "idle"]
    /\ callId' = [callId EXCEPT ![c] = NoId]
    /\ UNCHANGED <<termVars, cleanVars, playerVars, inDownload, downloadMore, json, mp4, bus,
                   tasks, spawned, written, nCalls, sinceClean>>

\* start_task_unary(s, song): HANDLES.lock().push(tokio::task::spawn(..))
StartUnary(v) ==
    /\ callPc["ctl"] = "idle"
    /\ nCalls < MaxCalls
    /\ nCalls' = nCalls + 1
    /\ tasks' = BagAdd(tasks, Task("unary", "exists", v, FALSE))
    /\ sinceClean' = "no"
    /\ UNCHANGED <<termVars, cleanVars, playerVars, queue, inDownload, downloadMore, json, mp4, bus,
                   callPc, callId, spawned, written>>

\* Search::on_key_press, KeyCode::Enter on an existing item:
\* self.action_sender.send(SoundAction::Cleanup)
Enter(v) ==
    /\ callPc["ui"] = "idle"
    /\ nCalls < MaxCalls
    /\ nCalls' = nCalls + 1
    /\ bus' = Append(bus, Cleanup)
    /\ callPc' = [callPc EXCEPT !["ui"] = "clear"]
    /\ callId' = [callId EXCEPT !["ui"] = v]
    /\ sinceClean' = IF callPc["ctl"] = "idle" THEN "cleaning" ELSE "no"
    /\ UNCHANGED <<termVars, cleanVars, playerVars, queue, inDownload, downloadMore, json, mp4,
                   tasks, spawned, written>>

\* CleanClear that leaves DOWNLOAD_QUEUE as it is
CleanClearKeeps ==
    /\ callPc["ui"] = "clear"
    /\ callPc' = [callPc EXCEPT !["ui"] = "abort"]
    /\ UNCHANGED <<termVars, cleanVars, playerVars, queue, inDownload, downloadMore, json, mp4, bus,
                   tasks, callId, spawned, written, nCalls, sinceClean>>

\* clean: DOWNLOAD_QUEUE.lock().unwrap().clear()
CleanClear ==
    /\ callPc["ui"] = "clear"
    /\ queue' = <<>>
    /\ callPc' = [callPc EXCEPT !["ui"] = "abort"]
    /\ UNCHANGED <<termVars, cleanVars, playerVars, inDownload, downloadMore, json, mp4, bus,
                   tasks, callId, spawned, written, nCalls, sinceClean>>

\* for i in handle.iter() { i.abort() }: a task suspended in sleep or in
\* handle_download is dropped; a running task goes on until its next .await;
\* on a finished task abort() does nothing, and its handle is cleared.
AbortAll(b) ==
    LET running == {r \in DOMAIN b : r.pc \notin {"sleep", "fetch", "panicked"}}
        marked == {[r EXCEPT !.aborted = TRUE] : r \in running}
        n(r) == IF r \in DOMAIN b THEN b[r] ELSE 0
    IN  [m \in marked |-> n(m) + n([m EXCEPT !.aborted = FALSE])]

\* clean: the loop over HANDLES, then handle.clear()
CleanAbort ==
    /\ callPc["ui"] = "abort"
    /\ tasks' = AbortAll(tasks)
    /\ callPc' = [callPc EXCEPT !["ui"] = "inflight"]
    /\ UNCHANGED <<termVars, cleanVars, playerVars, queue, inDownload, downloadMore, json, mp4, bus,
                   callId, spawned, written, nCalls, sinceClean>>

\* clean: IN_DOWNLOAD.lock().unwrap().clear()
CleanInDownload ==
    /\ callPc["ui"] = "inflight"
    /\ inDownload' = <<>>
    /\ callPc' = [callPc EXCEPT !["ui"] = "flag"]
    /\ UNCHANGED <<termVars, cleanVars, playerVars, queue, downloadMore, json, mp4, bus,
                   tasks, callId, spawned, written, nCalls, sinceClean>>

\* clean: DOWNLOAD_MORE.store(true, SeqCst)
CleanFlag ==
    /\ callPc["ui"] = "flag"
    /\ downloadMore' = TRUE
    /\ callPc' = [callPc EXCEPT !["ui"] = "spawn"]
    /\ UNCHANGED <<termVars, cleanVars, playerVars, queue, inDownload, json, mp4, bus,
                   tasks, callId, spawned, written, nCalls, sinceClean>>

\* start_task(s): HANDLES.lock().unwrap().push(tokio::task::spawn(..))
start_task(b) == BagAdd(b, Task("pool", "load", NoId, FALSE))

\* clean: downloader(sender): for _ in 0..DOWNLOADER_COUNT { start_task(..) };
\* then on_key_press goes on with download::add(a.1)
CleanSpawn ==
    /\ callPc["ui"] = "spawn"
    /\ tasks' = start_task(tasks)
    /\ spawned' = (spawned + 1) % DOWNLOADER_COUNT
    /\ callPc' = [callPc EXCEPT !["ui"] =
                     IF spawned + 1 = DOWNLOADER_COUNT THEN "add_check" ELSE "spawn"]
    /\ sinceClean' = IF spawned + 1 = DOWNLOADER_COUNT /\ sinceClean = "cleaning"
                     THEN "yes" ELSE sinceClean
    /\ UNCHANGED <<termVars, cleanVars, playerVars, queue, inDownload, downloadMore, json, mp4, bus,
                   callId, written, nCalls>>

\* DOWNLOAD_MORE is a pub static: another module stores false
StoreDownloadMore ==
    /\ downloadMore
    /\ nCalls < MaxCalls
    /\ nCalls' = nCalls + 1
    /\ downloadMore' = FALSE
    /\ UNCHANGED <<termVars, cleanVars, playerVars, queue, inDownload, json, mp4, bus, tasks,
                   callPc, callId, spawned, written, sinceClean>>

\* the steps of the spawned tasks (start_task, start_task_unary bodies)
TaskNext ==
    \/ \E r \in TaskSet : Wake(r)
    \/ \E r \in TaskSet : Load(r)
    \/ \E r \in TaskSet : Take(r)
    \/ \E r \in TaskSet : Exists(r)
    \/ \E r \in TaskSet : RmPartial(r)
    \/ \E r \in TaskSet : Push(r)
    \/ \E r \in TaskSet : FetchProgress(r)
    \/ \E r \in TaskSet : FetchOk(r)
    \/ \E r \in TaskSet : FetchErr(r)
    \/ \E r \in TaskSet : CWrite(r)
    \/ \E r \in TaskSet : CRetain(r)
    \/ \E r \in TaskSet : CSend(r)
    \/ \E r \in TaskSet : EDel(r)
    \/ \E r \in TaskSet : ERetain(r)

\* the steps of the threads that call the download system
CallNext ==
    \/ \E v \in Ids : AddCall(v)
    \/ \E c \in Callers : AddCheck(c)
    \/ \E c \in Callers : AddPush(c)
    \/ \E v \in Ids : StartUnary(v)
    \/ \E v \in Ids : Enter(v)
    \/ CleanClear
    \/ CleanAbort
    \/ CleanInDownload
    \/ CleanFlag
    \/ CleanSpawn
    \/ StoreDownloadMore

Next == TaskNext \/ CallNext

Spec == Init /\ [][Next]_vars

\* ------------------------------------------------------------------------
\* The pool alone, started on a Pending Queue that earlier add() calls have
\* filled: no further call, no reset, DOWNLOAD_MORE stays true.  Every task
\* that can take a step eventually takes one (the tokio runtime schedules
\* every runnable task, and every fetch returns).
MaxPending == 2

PendingInputs == UNION {[1..n -> Ids] : n \in 1..MaxPending}

InitPending ==
    /\ queue \in PendingInputs
    /\ inDownload = <<>>
    /\ downloadMore = TRUE
    /\ json = {}
    /\ mp4 = {}
    /\ bus = <<>>
    /\ tasks = [r \in {Task("pool", "load", NoId, FALSE)} |-> DOWNLOADER_COUNT]
    /\ callPc = [c \in Callers |-> "idle"]
    /\ callId = [c \in Callers |-> NoId]
    /\ spawned = 0
    /\ written = [v \in Ids |-> 0]
    /\ nCalls = 0
    /\ sinceClean = "no"
    /\ RestInit

PoolRecords ==
    [kind : {"pool"},
     pc : {"sleep", "load", "take", "exists", "rm_partial", "push", "fetch",
           "c_write", "c_retain", "c_send", "e_del", "e_retain"},
     id : Ids \cup {NoId},
     aborted : {FALSE}]

\* the steps that a task in state r takes by itself (FetchProgress is the
\* network's, and needs no fairness)
TaskRun(r) ==
    /\ r \in TaskSet
    /\ \/ Wake(r) \/ Load(r) \/ Take(r) \/ Exists(r) \/ RmPartial(r) \/ Push(r)
       \/ FetchOk(r) \/ FetchErr(r)
       \/ CWrite(r) \/ CRetain(r) \/ CSend(r) \/ EDel(r) \/ ERetain(r)

SpecPending ==
    InitPending /\ [][TaskNext]_vars /\ \A r \in PoolRecords : WF_vars(TaskRun(r))

TypeOK ==
    /\ queue \in Seq(Ids)
    /\ inDownload \in Seq(Ids)
    /\ downloadMore \in BOOLEAN
    /\ json \subseteq Ids
    /\ mp4 \subseteq Ids
    /\ \A r \in TaskSet : r.kind \in {"pool", "unary"} /\ tasks[r] > 0

\* ------------------------------------------------------------------------
\* The startup cleanup: main() starts a thread that runs clean() of main.rs
\* and goes on, without joining it, to downloader() and to the Manager.

\* the argument of path.ends_with(".mp4"), as a file name
Mp4Suffix == <<".", "mp4">>

\* files that may lie in downloads/ besides the <id>.mp4 and <id>.json
StrayNames == {Mp4Suffix, Mp4Suffix \o <<".", "json">>}

\* Path::ends_with(child) compares whole path components: the path
\* downloads/<name> ends with the one-component child iff <name> is the child.
PathEndsWith(name, child) == name = child

\* the "." that starts the extension of a file name (Path::extension): the
\* last ".", unless it is the first character of the name; 0 if there is none
ExtensionDot(name) ==
    LET D == {i \in 2..Len(name) : name[i] = "."}
    IN  IF D = {} THEN 0 ELSE CHOOSE i \in D : \A j \in D : j <= i

\* PathBuf::set_extension(ext)
SetExtension(name, ext) ==
    (IF ExtensionDot(name) = 0 THEN name ELSE SubSeq(name, 1, ExtensionDot(name) - 1))
        \o <<".", ext>>

\* Path::exists
PathExists(name) == name \in Dir(json, mp4, strays)

\* for i in std::fs::read_dir(CACHE_DIR.join("downloads")).unwrap()
CleanupReadDir ==
    /\ cleanPc = "read"
    /\ entries' = Dir(json, mp4, strays)
    /\ cleanPc' = "iter"
    /\ UNCHANGED <<termVars, playerVars, cleanPath, strays, dir0, queue, inDownload,
                   downloadMore, json, mp4, bus, tasks, callPc, callId,
                   spawned, written, nCalls, sinceClean>>

\* the next entry, in the order of the directory: let path = i.unwrap().path();
\* if path.ends_with(".mp4") { .. }
CleanupIter ==
    /\ cleanPc = "iter"
    /\ IF entries = {}
       THEN /\ cleanPc' = "done"
            /\ UNCHANGED <<entries, cleanPath>>
       ELSE \E path \in entries :
               /\ entries' = entries \ {path}
               /\ IF PathEndsWith(path, Mp4Suffix)
                  THEN cleanPath' = path /\ cleanPc' = "exists"
                  ELSE cleanPath' = cleanPath /\ cleanPc' = "iter"
    /\ UNCHANGED <<termVars, playerVars, strays, dir0, queue, inDownload,
                   downloadMore, json, mp4, bus, tasks, callPc, callId,
                   spawned, written, nCalls, sinceClean>>

\* path1.set_extension("json"); if !path1.exists() { .. }
CleanupExists ==
    /\ cleanPc = "exists"
    /\ cleanPc' = IF PathExists(SetExtension(cleanPath, "json")) THEN "iter" ELSE "remove"
    /\ cleanPath' = IF PathExists(SetExtension(cleanPath, "json")) THEN NoPath ELSE cleanPath
    /\ UNCHANGED <<termVars, playerVars, entries, strays, dir0, queue, inDownload,
                   downloadMore, json, mp4, bus, tasks, callPc, callId,
                   spawned, written, nCalls, sinceClean>>

\* std::fs::remove_file(&path).unwrap()
CleanupRemove ==
    /\ cleanPc = "remove"
    /\ cleanPc' = IF PathExists(cleanPath) THEN "iter" ELSE "panicked"
    /\ mp4' = {v \in mp4 : FileName(v, "mp4") # cleanPath}
    /\ json' = {v \in json : FileName(v, "json") # cleanPath}
    /\ strays' = strays \ {cleanPath}
    /\ cleanPath' = NoPath
    /\ UNCHANGED <<termVars, playerVars, entries, dir0, queue, inDownload,
                   downloadMore, bus, tasks, callPc, callId,
                   spawned, written, nCalls, sinceClean>>

\* the steps of the thread that runs clean() of main.rs
CleanupNext ==
    \/ CleanupReadDir
    \/ CleanupIter
    \/ CleanupExists
    \/ CleanupRemove

\* clean() of main.rs alone, on every content of downloads/ that an earlier
\* run can have left: complete entries, media files without sidecar (a crash
\* during a download), and files of other names.
InitCleanup ==
    /\ queue = <<>>
    /\ inDownload = <<>>
    /\ downloadMore = TRUE
    /\ json \in SUBSET Ids
    /\ mp4 \in SUBSET Ids
    /\ strays \in SUBSET StrayNames
    /\ dir0 = [json |-> json, mp4 |-> mp4, strays |-> strays]
    /\ bus = <<>>
    /\ tasks = [r \in {Task("pool", "load", NoId, FALSE)} |-> DOWNLOADER_COUNT]
    /\ callPc = [c \in Callers |-> "idle"]
    /\ callId = [c \in Callers |-> NoId]
    /\ spawned = 0
    /\ written = [v \in Ids |-> 0]
    /\ nCalls = 0
    /\ sinceClean = "no"
    /\ cleanPc = "read"
    /\ entries = {}
    /\ cleanPath = NoPath
    /\ player = PlayerStart
    /\ delivered = 0
    /\ stale = {}
    /\ TermInit

SpecCleanup == InitCleanup /\ [][CleanupNext]_vars

\* ------------------------------------------------------------------------
\* The start of the process: main() has started the thread of clean()
\* (std::thread::spawn, not joined) and calls downloader(); add() is called
\* from then on.  downloads/ holds what a crash of an earlier run can leave:
\* media files without sidecar, and possibly a file named ".mp4".

\* main: downloader(sa.clone()): for _ in 0..DOWNLOADER_COUNT { start_task(..) }
MainDownloader ==
    /\ callPc["ui"] = "downloader"
    /\ tasks' = start_task(tasks)
    /\ spawned' = (spawned + 1) % DOWNLOADER_COUNT
    /\ callPc' = [callPc EXCEPT !["ui"] =
                     IF spawned + 1 = DOWNLOADER_COUNT THEN "idle" ELSE "downloader"]
    /\ UNCHANGED <<termVars, cleanVars, playerVars, queue, inDownload, downloadMore,
                   json, mp4, bus, callId, written, nCalls, sinceClean>>

InitStartup ==
    /\ queue = <<>>
    /\ inDownload = <<>>
    /\ downloadMore = TRUE
    /\ json = {}
    /\ mp4 \in SUBSET Ids
    /\ strays \in {{}, {Mp4Suffix}}
    /\ dir0 = [json |-> json, mp4 |-> mp4, strays |-> strays]
    /\ bus = <<>>
    /\ tasks = <<>>
    /\ callPc = [c \in Callers |-> IF c = "ui" THEN "downloader" ELSE "idle"]
    /\ callId = [c \in Callers |-> NoId]
    /\ spawned = 0
    /\ written = [v \in Ids |-> 0]
    /\ nCalls = 0
    /\ sinceClean = "no"
    /\ cleanPc = "read"
    /\ entries = {}
    /\ cleanPath = NoPath
    /\ player = PlayerStart
    /\ delivered = 0
    /\ stale = {}
    /\ TermInit

\* the calls of add() after the start
StartupCallNext ==
    \/ MainDownloader
    \/ \E v \in Ids : AddCall(v)
    \/ AddCheck("ctl")
    \/ AddPush("ctl")

SpecStartup == InitStartup /\ [][TaskNext \/ StartupCallNext \/ CleanupNext]_vars

\* ------------------------------------------------------------------------
\* The Player Controller (systems::player): the consumer of the SoundActions.
\* It is described by section 4.3 of the specification; a command whose
\* precondition does not hold leaves the state as it is.
MaxSkip == 2        \* largest n of Next(n) / Previous(n)
MaxSession == 5     \* tracks of a session

Tracks == {"T1", "T2", "T3"}

Last(q) == q[Len(q)]
Front(q) == SubSeq(q, 1, Len(q) - 1)
Min(a, b) == IF a < b THEN a ELSE b
Max(a, b) == IF a < b THEN b ELSE a

\* track t becomes the track of the Current Slot, played from its start
Bind(p, t) == [p EXCEPT !.current = t, !.elapsed = 0]

\* NextOne that loses the track of the Current Slot
NextOneDropCurrent(p) ==
    IF p.upcoming = <<>> THEN p
    ELSE [Bind(p, Head(p.upcoming)) EXCEPT !.upcoming = Tail(p.upcoming)]

\* one step forward: Current goes onto the Previous Stack, the head of
\* Upcoming is popped and bound; with Upcoming empty the Controller stays
NextOne(p) ==
    IF p.upcoming = <<>> THEN p
    ELSE [Bind(p, Head(p.upcoming)) EXCEPT
             !.upcoming = Tail(p.upcoming),
             !.previous = IF p.current = NoId THEN p.previous
                          ELSE Append(p.previous, p.current)]

\* Next(n): up to n steps forward
RECURSIVE OnNext(_, _)
OnNext(p, n) == IF n = 0 THEN p ELSE OnNext(NextOne(p), n - 1)

\* PreviousOne that binds the top of the Previous Stack without popping it
PreviousOneNoPop(p) ==
    IF p.previous = <<>> THEN p
    ELSE [Bind(p, Last(p.previous)) EXCEPT
             !.upcoming = IF p.current = NoId THEN p.upcoming
                          ELSE <<p.current>> \o p.upcoming]

\* PreviousOne that drops the track of the Current Slot
PreviousOneDropCurrent(p) ==
    IF p.previous = <<>> THEN p
    ELSE [Bind(p, Last(p.previous)) EXCEPT !.previous = Front(p.previous)]

\* one step back: Current goes to the front of Upcoming, the top of the
\* Previous Stack is popped and bound; with Previous empty the Controller stays
PreviousOne(p) ==
    IF p.previous = <<>> THEN p
    ELSE [Bind(p, Last(p.previous)) EXCEPT
             !.previous = Front(p.previous),
             !.upcoming = IF p.current = NoId THEN p.upcoming
                          ELSE <<p.current>> \o p.upcoming]

\* Previous(n): up to n steps back
RECURSIVE OnPrevious(_, _)
OnPrevious(p, n) == IF n = 0 THEN p ELSE OnPrevious(PreviousOne(p), n - 1)

OnPlayPause(p) == IF p.current = NoId THEN p ELSE [p EXCEPT !.paused = ~p.paused]
OnForcePlay(p) == [p EXCEPT !.paused = FALSE]
OnForcePause(p) == [p EXCEPT !.paused = TRUE]
OnPlus(p) == [p EXCEPT !.volume = Min(MaxVolume, p.volume + VolumeStep)]
OnMinus(p) == [p EXCEPT !.volume = Max(0, p.volume - VolumeStep)]
OnForward(p) ==
    IF p.current = NoId THEN p
    ELSE [p EXCEPT !.elapsed = Min(Duration, p.elapsed + SeekStep)]
OnBackward(p) ==
    IF p.current = NoId THEN p
    ELSE [p EXCEPT !.elapsed = Max(0, p.elapsed - SeekStep)]
OnRestartPlayer(p) == IF p.current = NoId THEN p ELSE Bind(p, p.current)

\* Cleanup that also empties the Upcoming Queue and the Previous Stack
OnCleanupClearQueues(p) ==
    [p EXCEPT !.current = NoId, !.elapsed = 0, !.upcoming = <<>>,
              !.previous = <<>>]

\* Cleanup: releases the Current Slot (NoTrack), Upcoming and Previous as
\* they were
OnCleanup(p) == [p EXCEPT !.current = NoId, !.elapsed = 0]

\* "ready" of PlayEnqueued (PlayVideo): appended to Upcoming if a Current Slot
\* exists, else bound and played
OnPlayVideo(p, t) ==
    IF p.current # NoId THEN [p EXCEPT !.upcoming = Append(p.upcoming, t)]
    ELSE [Bind(p, t) EXCEPT !.paused = FALSE]

\* "ready" of PlayImmediate (PlayVideoUnary): bound and played; the track that
\* was current goes onto the Previous Stack
OnPlayVideoUnary(p, t) ==
    [Bind(p, t) EXCEPT
        !.paused = FALSE,
        !.previous = IF p.current = NoId THEN p.previous
                     ELSE Append(p.previous, p.current)]

\* the Controller handles message m of the Command Bus
Handle(p, m) ==
    CASE m.type = "Cleanup" -> OnCleanup(p)
      [] m.type = "PlayVideo" -> OnPlayVideo(p, m.id)
      [] m.type = "PlayVideoUnary" -> OnPlayVideoUnary(p, m.id)

\* the frame of a step of the Controller alone
ControllerOnly ==
    UNCHANGED <<termVars, cleanVars, delivered, stale, queue, inDownload, downloadMore,
                json, mp4, bus, tasks, callPc, callId, spawned, written,
                nCalls, sinceClean>>

CmdNext(n) == player' = OnNext(player, n) /\ ControllerOnly
CmdPrevious(n) == player' = OnPrevious(player, n) /\ ControllerOnly
CmdPlayPause == player' = OnPlayPause(player) /\ ControllerOnly
CmdForcePlay == player' = OnForcePlay(player) /\ ControllerOnly
CmdForcePause == player' = OnForcePause(player) /\ ControllerOnly
CmdPlus == player' = OnPlus(player) /\ ControllerOnly
CmdMinus == player' = OnMinus(player) /\ ControllerOnly
CmdForward == player' = OnForward(player) /\ ControllerOnly
CmdBackward == player' = OnBackward(player) /\ ControllerOnly
CmdRestartPlayer == player' = OnRestartPlayer(player) /\ ControllerOnly
CmdCleanup == player' = OnCleanup(player) /\ ControllerOnly

\* the transport commands, each handled in the state as it is
PlayerNext ==
    \/ \E n \in 1..MaxSkip : CmdNext(n)
    \/ \E n \in 1..MaxSkip : CmdPrevious(n)
    \/ CmdPlayPause
    \/ CmdForcePlay
    \/ CmdForcePause
    \/ CmdPlus
    \/ CmdMinus
    \/ CmdForward
    \/ CmdBackward
    \/ CmdRestartPlayer
    \/ CmdCleanup

\* the sessions of at most MaxSession tracks: Previous Stack, Current Slot
\* and Upcoming Queue around a bound track, or nothing at all (NoTrack)
SeqsUpTo(n) == UNION {[1..k -> Tracks] : k \in 0..n}

Sessions ==
    {s \in [previous : SeqsUpTo(MaxSession - 1), current : Tracks \cup {NoId},
            upcoming : SeqsUpTo(MaxSession - 1)] :
        /\ Len(s.previous) + Len(s.upcoming) < MaxSession
        /\ s.current = NoId => s.previous = <<>> /\ s.upcoming = <<>>}

InitPlayer ==
    /\ queue = <<>>
    /\ inDownload = <<>>
    /\ downloadMore = TRUE
    /\ json = {}
    /\ mp4 = {}
    /\ bus = <<>>
    /\ tasks = [r \in {Task("pool", "load", NoId, FALSE)} |-> DOWNLOADER_COUNT]
    /\ callPc = [c \in Callers |-> "idle"]
    /\ callId = [c \in Callers |-> NoId]
    /\ spawned = 0
    /\ written = [v \in Ids |-> 0]
    /\ nCalls = 0
    /\ sinceClean = "no"
    /\ cleanPc = "done"
    /\ entries = {}
    /\ cleanPath = NoPath
    /\ strays = {}
    /\ dir0 = EmptyDir
    /\ \E s \in Sessions :
          player = [PlayerStart EXCEPT !.previous = s.previous,
                                       !.current = s.current,
                                       !.upcoming = s.upcoming]
    /\ delivered = 0
    /\ stale = {}
    /\ TermInit

SpecPlayer == InitPlayer /\ [][PlayerNext]_vars

\* ------------------------------------------------------------------------
\* Sessions started from the search screen, with the Player Controller
\* receiving what the search screen and the tasks send on the Command Bus.

\* the Controller receives the next SoundAction of the channel
Deliver ==
    /\ delivered < Len(bus)
    /\ player' = Handle(player, bus[delivered + 1])
    /\ delivered' = delivered + 1
    /\ UNCHANGED <<termVars, cleanVars, stale, queue, inDownload, downloadMore,
                   json, mp4, bus, tasks, callPc, callId, spawned, written,
                   nCalls, sinceClean>>

\* Search::on_key_press, KeyCode::Enter, to its end
SessionCallNext ==
    \/ \E v \in Ids : Enter(v)
    \/ CleanClear
    \/ CleanAbort
    \/ CleanInDownload
    \/ CleanFlag
    \/ CleanSpawn
    \/ AddCheck("ui")
    \/ AddPush("ui")

SpecSession == Init /\ [][TaskNext \/ SessionCallNext \/ Deliver]_vars

\* ------------------------------------------------------------------------
\* The pool on a filled Pending Queue while the Player Controller may drop
\* its Receiver<SoundAction>; the Controller thread still calls add().

\* the last Receiver of the channel is dropped
DropReceiver ==
    /\ ~rxDropped
    /\ rxDropped' = TRUE
    /\ UNCHANGED <<mouseVars, managerVars, searchVars, cleanVars, playerVars, queue, inDownload, downloadMore,
                   json, mp4, bus, tasks, callPc, callId, spawned, written,
                   nCalls, sinceClean>>

DisconnectCallNext ==
    \/ \E v \in Ids : AddCall(v)
    \/ AddCheck("ctl")
    \/ AddPush("ctl")

SpecDisconnect ==
    InitPending /\ [][TaskNext \/ DisconnectCallNext \/ DropReceiver]_vars

\* ------------------------------------------------------------------------
\* The music-player screen (App) under mouse events.
MaxRows == 2
MaxClicks == 1

\* u16 arithmetic of tui::layout::Rect and of the mouse coordinates
U16(n) == n % 65536

\* MusicStatusAction
Skip(k) == [tag |-> "Skip", n |-> k]
Current == [tag |-> "Current", n |-> 0]
Before(k) == [tag |-> "Before", n |-> k]
Downloading == [tag |-> "Downloading", n |-> 0]
MusicStatusAction ==
    {Skip(k) : k \in 1..MaxSkip} \cup {Before(k) : k \in 1..MaxSkip}
       \cup {Current, Downloading}

Rect(x, y, w, h) == [x |-> x, y |-> y, width |-> w, height |-> h]

\* split_y(f, end_size)[0] and split_x(f, end_size)[0]: the rectangle without
\* its last end_size rows / columns
split_y(f, end_size) == [f EXCEPT !.height = U16(f.height - end_size)]
split_x(f, end_size) == [f EXCEPT !.width = U16(f.width - end_size)]

rect_contains(rect, x, y, margin) ==
    /\ U16(rect.x + margin) <= x
    /\ x <= U16(U16(rect.x + rect.width) - margin)
    /\ U16(rect.y + margin) <= y
    /\ y <= U16(U16(rect.y + rect.height) - margin)

\* relative_pos that does not take the border off
relative_pos_no_margin(rect, x, y, margin) == U16(y - rect.y)

\* relative_pos(rect, x, y, margin).1
relative_pos(rect, x, y, margin) == U16(U16(y - rect.y) - margin)

\* the SoundActions that on_mouse_press sends for event ev on the rows ms
MouseSends(ms, ev) ==
    IF ev.kind # "Down" THEN <<>>
    ELSE LET top_rect == split_y(ev.frame, 3)
             list_rect == split_x(top_rect, 10)
         IN  IF ~rect_contains(list_rect, ev.column, ev.row, 1) THEN <<>>
             ELSE LET y == relative_pos(list_rect, ev.column, ev.row, 1)
                  IN  IF ~(Len(ms) > y) THEN <<>>
                      ELSE LET o == ms[y + 1]
                           IN  CASE o.tag = "Skip" -> <<SoundNext(o.n)>>
                                 [] o.tag = "Current" -> <<PlayPause>>
                                 [] o.tag = "Before" -> <<SoundPrevious(o.n)>>
                                 [] o.tag = "Downloading" -> <<>>

\* the frames of the terminal (terminal.size(), at the origin): render splits
\* the same frame by 3 rows and 10 columns at every turn of the loop, so the
\* frames are at least that large
Frames == {Rect(0, 0, 13, 7), Rect(0, 0, 14, 8)}
MouseKinds == {"Down", "Up"}
Columns == 0..4
Rows == 0..5
MouseEvents ==
    [kind : MouseKinds, column : Columns, row : Rows, frame : Frames]

\* the frame of a step of the terminal side that sends on the channel
TermSends ==
    UNCHANGED <<rxDropped, cleanVars, playerVars, queue, inDownload,
                downloadMore, json, mp4, tasks, callPc, callId, spawned,
                written, nCalls, sinceClean>>

\* App::on_mouse_press(mouse_event, frame_data)
OnMousePress(ev) ==
    /\ clicks < MaxClicks
    /\ clicks' = clicks + 1
    /\ mouse' = ev
    /\ bus' = bus \o MouseSends(musics, ev)
    /\ musics' = musics
    /\ UNCHANGED <<managerVars, searchVars>>
    /\ TermSends

\* ManagerMessage::UpdateApp(app) => *self = app
UpdateApp(ms) ==
    /\ musics' = ms
    /\ UNCHANGED <<mouse, clicks, bus, managerVars, searchVars>>
    /\ TermSends

Playlists == UNION {[1..n -> MusicStatusAction] : n \in 0..MaxRows}

MouseNext ==
    \/ \E ev \in MouseEvents : OnMousePress(ev)
    \/ \E ms \in Playlists : UpdateApp(ms)

SpecMouse == Init /\ [][MouseNext]_vars

\* ------------------------------------------------------------------------
\* The screen manager: Manager::run takes the messages of the updater
\* channel and the answers of the active screen to the keys.
MaxMessages == 3

Screens == {"MusicPlayer", "Playlist", "Search", "DeviceLost"}

\* ManagerMessage
Error == [type |-> "Error"]
PassTo(s, m) == [type |-> "PassTo", screen |-> s, inner |-> m]
ChangeState(s) == [type |-> "ChangeState", screen |-> s]
RestartPlayer == [type |-> "RestartPlayer"]
Quit == [type |-> "Quit"]
AddElementToChooser == [type |-> "AddElementToChooser"]

\* what close() and open() of a screen send on the channel; both return
\* EventResponse::None
CloseSends(s) == IF s = "MusicPlayer" THEN <<ForcePause>> ELSE <<>>
OpenSends(s) == IF s = "MusicPlayer" THEN <<ForcePlay>> ELSE <<>>

\* a screen whose code is not at hand may answer a key or a global message
\* with any of these EventResponses
UnseenResponses ==
    {<<>>, <<Quit>>, <<PassTo("MusicPlayer", RestartPlayer)>>}
       \cup {<<ChangeState(s)>> : s \in {"DeviceLost", "MusicPlayer"}}

\* the Manager while it handles one input: current_screen, what has been
\* sent, the Errors handed to DeviceLost, the value returned
ManagerState(sc, n) == [screen |-> sc, sent |-> <<>>, errs |-> n, ret |-> FALSE]

\* Screen::handle_global_message of screen s for message m: the Manager
\* after it, and the EventResponse
handle_global_message(st, s, m, resp) ==
    CASE s = "MusicPlayer" ->
            IF m.type = "RestartPlayer"
            THEN [st |-> [st EXCEPT !.sent = Append(@, SoundRestartPlayer)],
                  msgs |-> <<ChangeState("MusicPlayer")>>]
            ELSE [st |-> st, msgs |-> <<>>]
      [] s = "Search" -> [st |-> st, msgs |-> <<>>]
      [] s = "DeviceLost" ->
            [st |-> [st EXCEPT !.errs = IF m.type = "Error" THEN @ + 1 ELSE @],
             msgs |-> resp]
      [] s = "Playlist" -> [st |-> st, msgs |-> resp]

\* self.current_screen().close(..)
close(st) == [st EXCEPT !.sent = @ \o CloseSends(st.screen)]

\* set_current_screen that calls open() on the screen that was current
set_current_screen_old(st, s) ==
    [st EXCEPT !.screen = s, !.sent = @ \o OpenSends(st.screen)]

\* set_current_screen(screen): open() of the new screen returns None, and
\* handle_event(None) does nothing
set_current_screen(st, s) == [st EXCEPT !.screen = s, !.sent = @ \o OpenSends(s)]

RECURSIVE handle_manager_message(_, _, _)
RECURSIVE handle_event(_, _, _)

\* handle_event(EventResponse::Message(messages)); None is <<>>
handle_event(st, messages, resp) ==
    IF messages = <<>> THEN [st EXCEPT !.ret = FALSE]
    ELSE LET r == handle_manager_message(st, Head(messages), resp)
         IN  IF r.ret THEN r ELSE handle_event(r, Tail(messages), resp)

\* handle_manager_message whose PassTo arm returns what handle_event returned
handle_manager_message_passing(st, e, resp) ==
    CASE e.type = "PassTo" ->
            LET rs == handle_global_message(st, e.screen, e.inner, resp)
            IN  handle_event(rs.st, rs.msgs, resp)
      [] e.type = "Quit" -> [close(st) EXCEPT !.ret = TRUE]
      [] e.type = "ChangeState" ->
            [set_current_screen(close(st), e.screen) EXCEPT !.ret = FALSE]
      [] OTHER -> handle_manager_message(st, PassTo("DeviceLost", Error), resp)

\* handle_manager_message(e): true exactly when the loop is to end
handle_manager_message(st, e, resp) ==
    CASE e.type = "PassTo" ->
            LET rs == handle_global_message(st, e.screen, e.inner, resp)
            IN  [handle_event(rs.st, rs.msgs, resp) EXCEPT !.ret = FALSE]
      [] e.type = "Quit" -> [close(st) EXCEPT !.ret = TRUE]
      [] e.type = "ChangeState" ->
            [set_current_screen(close(st), e.screen) EXCEPT !.ret = FALSE]
      [] OTHER -> handle_manager_message(st, PassTo("DeviceLost", Error), resp)

\* the messages that arrive on the updater channel
Unrouted == {Error, RestartPlayer, AddElementToChooser}
ManagerMessages ==
    Unrouted \cup {Quit} \cup {ChangeState(s) : s \in Screens}
       \cup {PassTo(s, m) : s \in Screens, m \in Unrouted}

Keys == {"Esc", "f", " "}

\* Screen::on_key_press of screen s: what it sends and its EventResponse
on_key_press(s, key, resp) ==
    CASE s = "MusicPlayer" ->
            (CASE key = "Esc" -> [sent |-> <<>>, msgs |-> <<ChangeState("Playlist")>>]
               [] key = "f" -> [sent |-> <<>>, msgs |-> <<ChangeState("Search")>>]
               [] key = " " -> [sent |-> <<PlayPause>>, msgs |-> <<>>])
      [] s = "Search" ->
            IF key = "Esc" THEN [sent |-> <<>>, msgs |-> <<ChangeState("Playlist")>>]
            ELSE [sent |-> <<>>, msgs |-> <<>>]
      [] OTHER -> [sent |-> <<>>, msgs |-> resp]

\* the frame of a step of Manager::run
ManagerOnly ==
    UNCHANGED <<rxDropped, mouseVars, searchVars, cleanVars, playerVars, queue,
                inDownload, downloadMore, json, mp4, tasks, callPc, callId,
                spawned, written, nCalls, sinceClean>>

\* the outcome r of handling input e is recorded
Handled(e, resp, r) ==
    /\ nMsgs' = nMsgs + 1
    /\ screen' = r.screen
    /\ bus' = bus \o r.sent
    /\ errs' = r.errs
    /\ loopPc' = IF r.ret THEN "ended" ELSE "run"
    /\ last' = [msg |-> e, resp |-> resp, ret |-> r.ret]
    /\ onlyChange' = (onlyChange /\ e.type = "ChangeState")

\* while let Ok(e) = updater.try_recv() { if handle_manager_message(e) { break 'a } }
RunRecv(e, resp) ==
    /\ loopPc = "run"
    /\ nMsgs < MaxMessages
    /\ Handled(e, resp, handle_manager_message(ManagerState(screen, errs), e, resp))
    /\ ManagerOnly

\* Event::Key(key): the key goes to the active screen and its answer to
\* handle_event
RunKey(key, resp) ==
    /\ loopPc = "run"
    /\ nMsgs < MaxMessages
    /\ LET k == on_key_press(screen, key, resp)
           st == [ManagerState(screen, errs) EXCEPT !.sent = k.sent]
       IN  Handled(IF k.msgs = <<>> THEN [type |-> "none"] ELSE Head(k.msgs),
                   resp, handle_event(st, k.msgs, resp))
    /\ ManagerOnly

\* Ctrl+C or Ctrl+D: break
RunCtrlC ==
    /\ loopPc = "run"
    /\ nMsgs < MaxMessages
    /\ nMsgs' = nMsgs + 1
    /\ loopPc' = "ended"
    /\ last' = [msg |-> [type |-> "CtrlC"], resp |-> <<>>, ret |-> FALSE]
    /\ onlyChange' = FALSE
    /\ UNCHANGED <<screen, errs, bus>>
    /\ ManagerOnly

ManagerNext ==
    \/ RunCtrlC
    \/ \E e \in ManagerMessages, resp \in UnseenResponses : RunRecv(e, resp)
    \/ \E key \in Keys, resp \in UnseenResponses : RunKey(key, resp)

SpecManager == Init /\ [][ManagerNext]_vars

\* ------------------------------------------------------------------------
\* The search screen: keys and clicks on Search, the search tasks it spawns,
\* and Enter on an item, which starts a session.
MaxItems == 2
MaxKeys == 3

\* the result lists of api.search (empty when the search fails)
Results == UNION {[1..n -> Ids] : n \in 0..MaxItems}

\* slice::get that takes the last item for an index past the end
get_clamped(xs, i) ==
    IF xs = <<>> THEN <<>> ELSE <<xs[Min(i + 1, Len(xs))]>>

\* items.get(index): Some(item) is <<item>>, None is <<>>
get(xs, i) == IF i < Len(xs) THEN <<xs[i + 1]>> ELSE <<>>

CleanupCount == Cardinality({i \in 1..Len(bus) : bus[i] = Cleanup})

\* on_key_press has finished download::add and has not returned yet
PendingReturn == callPc["ui"] = "idle" /\ CleanupCount > returns

\* the Manager is in its loop, between two events, on the search screen
AtSearch ==
    /\ screen = "Search"
    /\ loopPc = "run"
    /\ callPc["ui"] = "idle"
    /\ ~PendingReturn

\* the frame of a step of the search screen or of a search task
SearchOnly ==
    UNCHANGED <<rxDropped, mouseVars, managerVars, cleanVars, playerVars,
                queue, inDownload, downloadMore, json, mp4, bus, tasks,
                callPc, callId, spawned, written, nCalls, sinceClean>>

\* KeyCode::Enter: if let Some(a) = items.read().unwrap().get(selected) {
\* send(Cleanup); clean(..); add(a.1); return ChangeState(MusicPlayer) };
\* with None the text is unchanged and the handler returns None
SearchEnter ==
    /\ AtSearch
    /\ LET a == get(items, selected)
       IN  IF a # <<>> THEN Enter(a[1])
           ELSE /\ typed + misses < MaxKeys
                /\ misses' = misses + 1
                /\ UNCHANGED <<items, selected, searches, typed, returns>>
                /\ SearchOnly

\* return ManagerMessage::ChangeState(Screens::MusicPlayer).event(), which
\* Manager::run hands to handle_event
EnterReturn ==
    /\ PendingReturn
    /\ returns' = returns + 1
    /\ LET r == handle_event(ManagerState(screen, errs),
                             <<ChangeState("MusicPlayer")>>, <<>>)
       IN  /\ screen' = r.screen
           /\ bus' = bus \o r.sent
    /\ UNCHANGED <<items, selected, searches, typed, misses>>
    /\ UNCHANGED <<loopPc, errs, last, onlyChange, nMsgs>>
    /\ UNCHANGED <<rxDropped, mouseVars, cleanVars, playerVars, queue,
                   inDownload, downloadMore, json, mp4, tasks, callPc, callId,
                   spawned, written, nCalls, sinceClean>>

\* Search::selected(selected as isize + d)
Selected(sel) ==
    LET k == Len(items)
    IN  IF sel < 0 THEN (IF k = 0 THEN 0 ELSE k - 1)
        ELSE IF sel >= k THEN 0 ELSE sel

\* KeyCode::Up / Down: the text is unchanged, the handler returns None
SearchMove(d) ==
    /\ AtSearch
    /\ selected' = Selected(selected + d)
    /\ UNCHANGED <<items, searches, typed, misses, returns>>
    /\ SearchOnly

\* on_mouse_press: if items.len() > y { selected = y; on_key_press(Enter) }:
\* the lock on items is released between the test and the Enter
SearchClick(y) ==
    /\ AtSearch
    /\ Len(items) > y
    /\ selected' = y
    /\ UNCHANGED <<items, searches, typed, misses, returns>>
    /\ SearchOnly

\* a key that changes the text: the search task of before is aborted (it is
\* dropped if it awaits api.search), selected = 0, a new task is spawned
SearchType ==
    /\ AtSearch
    /\ typed + misses < MaxKeys
    /\ typed' = typed + 1
    /\ selected' = 0
    /\ searches' = {t \in searches : t.pc # "search"}
                       \cup {[pc |-> "search", found |-> <<>>, n |-> typed + 1]}
    /\ UNCHANGED <<items, misses, returns>>
    /\ SearchOnly

\* api.search(..).await returns: the task holds its result list
SearchFound(t, res) ==
    /\ t \in searches
    /\ t.pc = "search"
    /\ searches' = (searches \ {t}) \cup {[t EXCEPT !.pc = "clear", !.found = res]}
    /\ UNCHANGED <<items, selected, typed, misses, returns>>
    /\ SearchOnly

\* items.write().unwrap().clear()
SearchClear(t) ==
    /\ t \in searches
    /\ t.pc = "clear"
    /\ items' = <<>>
    /\ searches' = (searches \ {t}) \cup {[t EXCEPT !.pc = "extend"]}
    /\ UNCHANGED <<selected, typed, misses, returns>>
    /\ SearchOnly

\* items.write().unwrap().extend(item.into_iter())
SearchExtend(t) ==
    /\ t \in searches
    /\ t.pc = "extend"
    /\ items' = items \o t.found
    /\ searches' = searches \ {t}
    /\ UNCHANGED <<selected, typed, misses, returns>>
    /\ SearchOnly

\* on_key_press(Enter) after Some(a): clean(..), add(a.1)
EnterCallNext ==
    \/ CleanClear
    \/ CleanAbort
    \/ CleanInDownload
    \/ CleanFlag
    \/ CleanSpawn
    \/ AddCheck("ui")
    \/ AddPush("ui")

SearchNext ==
    \/ SearchEnter
    \/ EnterReturn
    \/ \E d \in {-1, 1} : SearchMove(d)
    \/ \E y \in 0..(2 * MaxItems) : SearchClick(y)
    \/ SearchType
    \/ \E t \in searches, res \in Results : SearchFound(t, res)
    \/ \E t \in searches : SearchClear(t)
    \/ \E t \in searches : SearchExtend(t)

\* the search screen is active, the pool idle, nothing cached
InitSearch ==
    /\ queue = <<>>
    /\ inDownload = <<>>
    /\ downloadMore = TRUE
    /\ json = {}
    /\ mp4 = {}
    /\ bus = <<>>
    /\ tasks = [r \in {Task("pool", "load", NoId, FALSE)} |-> DOWNLOADER_COUNT]
    /\ callPc = [c \in Callers |-> "idle"]
    /\ callId = [c \in Callers |-> NoId]
    /\ spawned = 0
    /\ written = [v \in Ids |-> 0]
    /\ nCalls = 0
    /\ sinceClean = "no"
    /\ OutsideInit
    /\ TermStart
    /\ screen = "Search"
    /\ items = <<>>
    /\ selected = 0

SpecSearch == InitSearch /\ [][SearchNext \/ EnterCallNext]_vars

\* Enter is pressed on a result list that an earlier search has filled,
\* while the pool works on what an earlier session left pending or cached
InitEnter ==
    /\ queue \in {<<>>, <<"B">>}
    /\ inDownload = <<>>
    /\ downloadMore = TRUE
    /\ json \in {{}, {"A"}}
    /\ mp4 = json
    /\ bus = <<>>
    /\ tasks = [r \in {Task("pool", "load", NoId, FALSE)} |-> DOWNLOADER_COUNT]
    /\ callPc = [c \in Callers |-> "idle"]
    /\ callId = [c \in Callers |-> NoId]
    /\ spawned = 0
    /\ written = [v \in Ids |-> 0]
    /\ nCalls = 0
    /\ sinceClean = "no"
    /\ OutsideInit
    /\ TermStart
    /\ screen = "Search"
    /\ items = <<"A">>
    /\ selected \in {0, 1}

SpecEnter ==
    InitEnter /\ [][TaskNext \/ SearchEnter \/ EnterCallNext \/ EnterReturn]_vars

\* ------------------------------------------------ helpers of the claims
CopiesNext(r) == IF r \in DOMAIN tasks' THEN tasks'[r] ELSE 0

\* this step is a step of a task that is in state r
TaskStep(r) == Copies(r) > CopiesNext(r) /\ callPc' = callPc

\* this step is a step of caller c at pc
CallerStep(c, pc) == callPc[c] = pc /\ callPc'[c] # pc

RECURSIVE SumCopies(_)
SumCopies(S) ==
    IF S = {} THEN 0
    ELSE LET r == CHOOSE x \in S : TRUE IN tasks[r] + SumCopies(S \ {r})

\* the tasks that have pushed v into IN_DOWNLOAD and not yet retained it
Holders(v) ==
    SumCopies({r \in TaskSet : r.id = v /\
                 r.pc \in {"fetch", "c_write", "c_retain", "e_del", "e_retain"}})

\* the "ready" notifications sent for v
ReadyCount(v) ==
    Cardinality({i \in 1..Len(bus) :
                   bus[i].id = v /\ bus[i].type \in {"PlayVideo", "PlayVideoUnary"}})

\* clean() is not running
CleanReturned == callPc["ui"] \in {"idle", "add_check", "add_push"}

\* ---------------------------------------------------------------- C1
\* C1: in every reachable state no identity is both in the Pending Queue
\* (DOWNLOAD_QUEUE) and in the In-Flight Set (IN_DOWNLOAD).
C1_QueueInFlightDisjoint ==
    \A v \in Ids : ~(InSeq(queue, v) /\ InSeq(inDownload, v))

\* ---------------------------------------------------------------- C2
\* C2: enqueue is idempotent: an add() of an identity without sidecar that is
\* already in the Pending Queue or in the In-Flight Set leaves the Pending
\* Queue unchanged, so the Pending Queue never holds an identity twice.
C2_IdempotentEnqueue ==
    [][/\ \A c \in Callers :
             (CallerStep(c, "add_push") /\
                (InSeq(queue, callId[c]) \/ InSeq(inDownload, callId[c])))
             => queue' = queue
       /\ \A i, j \in 1..Len(queue') : i # j => queue'[i] # queue'[j]]_vars

\* ---------------------------------------------------------------- C3
\* C3: no duplicate work: at most one task at a time holds an identity in the
\* In-Flight Set, and the sidecar of an identity is written at most once.
C3_NoDuplicateWork ==
    \A v \in Ids : Holders(v) <= 1 /\ written[v] <= 1

\* ---------------------------------------------------------------- C4
\* C4: once clean() has returned, the Pending Queue and the In-Flight Set are
\* empty and stay so until the next download is requested, whatever the
\* workers that were running when clean() was called do.
C4_ResetEmpties ==
    sinceClean = "yes" => queue = <<>> /\ inDownload = <<>>

\* ---------------------------------------------------------------- C5
\* C5: after clean() has returned, no task that this clean() aborted writes a
\* sidecar, and no such task past its fetch (its track was in flight at the
\* reset) changes the media files.
C5_NoCacheWriteAfterReset ==
    [][\A r \in TaskSet :
          (TaskStep(r) /\ r.aborted /\ CleanReturned) =>
             /\ json' = json
             /\ (r.pc \in {"c_write", "c_retain", "c_send"} => mp4' = mp4)]_vars

\* ---------------------------------------------------------------- C6
\* C6: there is no state in which a worker has popped an identity that it
\* is going to download and the identity is neither in the Pending Queue nor
\* in the In-Flight Set.
C6_ClaimAtomic ==
    \A r \in TaskSet :
        r.kind = "pool" /\ r.pc \in {"rm_partial", "push"} =>
            InSeq(queue, r.id) \/ InSeq(inDownload, r.id)

\* ---------------------------------------------------------------- C7
\* C7: fast path: an add() that finds the sidecar of its track posts one
\* PlayVideo(track), leaves the Pending Queue and the In-Flight Set as they
\* are and returns without pushing.
C7_FastPath ==
    [][\A c \in Callers :
          (CallerStep(c, "add_check") /\ callId[c] \in json) =>
             /\ bus' = Append(bus, PlayVideo(callId[c]))
             /\ queue' = queue
             /\ inDownload' = inDownload
             /\ callPc'[c] = "idle"]_vars

\* an add() is about to check a track whose sidecar exists, after an earlier
\* download committed it
C7_Witness ==
    \E c \in Callers :
        callPc[c] = "add_check" /\ callId[c] \in json /\ written[callId[c]] > 0

\* ---------------------------------------------------------------- C8
\* C8: every PlayVideo(T) / PlayVideoUnary(T) is sent in a state where the
\* sidecar of T exists; on the commit path a task writes the sidecar, then
\* removes T from the In-Flight Set, then posts "ready", in that order.
C8_ReadyOnlyWhenComplete ==
    [][/\ bus' # bus =>
             /\ Len(bus') = Len(bus) + 1
             /\ SubSeq(bus', 1, Len(bus)) = bus
             /\ bus'[Len(bus')] = Cleanup \/ bus'[Len(bus')].id \in json
       /\ \A r \in TaskSet :
             TaskStep(r) =>
                /\ r.pc = "c_write" =>
                      r.id \in json' /\ inDownload' = inDownload /\ bus' = bus
                /\ r.pc = "c_retain" =>
                      r.id \in json /\ ~InSeq(inDownload', r.id) /\ bus' = bus
                /\ r.pc = "c_send" =>
                      r.id \in json /\ bus' = Append(bus, Ready(r))
                /\ bus' # bus => r.pc \in {"exists", "c_send"}]_vars

\* a "ready" of a track that a task downloaded and committed is on the bus
C8_Witness ==
    \E i \in 1..Len(bus) :
        /\ bus[i].type \in {"PlayVideo", "PlayVideoUnary"}
        /\ written[bus[i].id] > 0
        /\ bus[i].id \in json

Quiescent ==
    /\ queue = <<>>
    /\ \A r \in TaskSet : r.id = NoId
    /\ \A c \in Callers : callPc[c] = "idle"

\* C10: with no reset, once every pending track is settled the In-Flight Set
\* is empty and every identity has either a Cache Entry, written once, and
\* exactly one "ready", or no Cache Entry and no "ready".
C10_PendingSettled ==
    Quiescent =>
        /\ inDownload = <<>>
        /\ \A v \in Ids :
              /\ written[v] <= 1
              /\ ReadyCount(v) = (IF v \in json THEN 1 ELSE 0)

\* every pending identity is eventually claimed and leaves the In-Flight Set
PendingLeadsToSettled ==
    \A v \in Ids :
        InSeq(queue, v) ~> (~InSeq(queue, v) /\ ~InSeq(inDownload, v))

\* ---------------------------------------------------------------- C11
\* C11: no identity is enqueued while it has a Cache Entry: add() pushes a
\* track into the Pending Queue only in a state where its sidecar does not
\* exist, and no identity in the Pending Queue ever has a sidecar.
C11_NoEnqueueOfCached ==
    [][/\ \A c \in Callers :
             CallerStep(c, "add_push") => callId[c] \notin json
       /\ \A v \in Ids : ~(InSeq(queue', v) /\ v \in json')]_vars

\* ---------------------------------------------------------------- C12
\* the tasks suspended in handle_download of v
Fetchers(v) == SumCopies({r \in TaskSet : r.id = v /\ r.pc = "fetch"})

\* C12: file writes are exclusive per identity: no task deletes or writes the
\* media file or the sidecar of an identity while another task is fetching
\* that identity.
C12_ExclusiveFileWrites ==
    [][\A r \in TaskSet :
          (TaskStep(r) /\ r.pc \in {"rm_partial", "fetch", "c_write", "e_del"}) =>
             Fetchers(r.id) - (IF r.pc = "fetch" THEN 1 ELSE 0) = 0]_vars

\* ---------------------------------------------------------------- C13
\* C13: when clean() of main.rs has run over downloads/, no media file
\* <id>.mp4 without its sidecar <id>.json is left, every media file that had a
\* sidecar is still there, and so is every sidecar.
C13_OrphansRemoved ==
    cleanPc = "done" =>
        /\ \A v \in mp4 : v \in json
        /\ \A v \in dir0.mp4 : v \in dir0.json => v \in mp4
        /\ json = dir0.json

\* ---------------------------------------------------------------- C14
\* C14: the startup cleanup has finished before any worker claims an
\* identity: no task holds a track while clean() of main.rs is still running.
C14_CleanupBeforePool ==
    \A r \in TaskSet : r.id # NoId => cleanPc = "done"

\* ---------------------------------------------------------------- C15
\* the pool workers in bag b that no clean() has aborted (their JoinHandles
\* are the ones in HANDLES)
RECURSIVE PoolSize(_)
PoolSize(b) ==
    IF DOMAIN b = {} THEN 0
    ELSE LET r == CHOOSE x \in DOMAIN b : TRUE
         IN  (IF r.kind = "pool" /\ ~r.aborted THEN b[r] ELSE 0)
                + PoolSize([x \in DOMAIN b \ {r} |-> b[x]])

\* C15: the pool has a fixed size: whenever clean() is not running there are
\* DOWNLOADER_COUNT pool workers, and they are the only ones that claim: a
\* worker that a clean() has aborted takes no track once that clean() has
\* returned.
C15_FixedPool ==
    [][/\ CleanReturned' => PoolSize(tasks') = DOWNLOADER_COUNT
       /\ \A r \in TaskSet :
             (TaskStep(r) /\ r.kind = "pool" /\ r.aborted /\ r.pc = "take"
                 /\ CleanReturned) => queue' = queue]_vars

\* ---------------------------------------------------------------- C16
\* C16: the Pending Queue is FIFO: it changes only when add() appends a track
\* at its back, when clean() empties it, or when a worker claims its head, so
\* the tracks that no reset removes are claimed in the order of their
\* insertion.
C16_Fifo ==
    [][queue' # queue =>
          \/ \E c \in Callers :
                CallerStep(c, "add_push") /\ queue' = Append(queue, callId[c])
          \/ CallerStep("ui", "clear") /\ queue' = <<>>
          \/ /\ queue # <<>>
             /\ queue' = Tail(queue)
             /\ \E r \in TaskSet :
                   /\ r.pc = "take"
                   /\ TaskStep(r)
                   /\ CopiesNext([r EXCEPT !.pc = "exists", !.id = Head(queue)]) =
                         Copies([r EXCEPT !.pc = "exists", !.id = Head(queue)]) + 1]_vars

\* a worker has claimed A while B, pushed behind it by a second add(), is
\* still pending
C16_Witness ==
    /\ queue = <<"B">>
    /\ nCalls = 2
    /\ \E r \in TaskSet : r.kind = "pool" /\ r.pc = "exists" /\ r.id = "A"

\* ---------------------------------------------------------------- C17
\* C17: Next(n) with Upcoming non-empty binds the n-th track of Upcoming (the
\* last one if there are fewer than n), removes the tracks up to it from
\* Upcoming, and appends to the Previous Stack the track that was current and
\* then the skipped tracks, in order.  From Current = T1, Upcoming =
\* [T2, T3], Previous = [], Next(2) gives Current = T3, Upcoming = [],
\* Previous = [T1, T2].
C17_NextSkips ==
    \A n \in 1..MaxSkip :
        player.upcoming # <<>> =>
            LET up == player.upcoming
                k == Min(n, Len(up))
                q == OnNext(player, n)
            IN  /\ q.current = up[k]
                /\ q.upcoming = SubSeq(up, k + 1, Len(up))
                /\ q.previous =
                      player.previous
                         \o (IF player.current = NoId THEN <<>> ELSE <<player.current>>)
                         \o SubSeq(up, 1, k - 1)

\* the end state of the scenario of the specification, after commands have
\* been handled
C17_Witness ==
    /\ player.current = "T3"
    /\ player.upcoming = <<>>
    /\ player.previous = <<"T1", "T2">>
    /\ player.volume # StartVolume

\* ---------------------------------------------------------------- C18
\* the Current Slot (track, transport state, volume) and the two queues agree
SameSession(q, p) ==
    /\ q.current = p.current
    /\ q.paused = p.paused
    /\ q.volume = p.volume
    /\ q.upcoming = p.upcoming
    /\ q.previous = p.previous

\* C18 as stated: from any state in which Upcoming and Previous both have at
\* least n tracks, Next(n) followed by Previous(n) restores the Current Slot,
\* the Upcoming Queue and the Previous Stack.
C18_RoundTrip ==
    \A n \in 1..MaxSkip :
        (Len(player.upcoming) >= n /\ Len(player.previous) >= n) =>
            SameSession(OnPrevious(OnNext(player, n), n), player)

\* C18 amended: from any state in which a track is bound to the Current Slot
\* and Upcoming and Previous both have at least n tracks, Next(n) followed by
\* Previous(n) restores the Current Slot, the Upcoming Queue and the Previous
\* Stack.
C18_RoundTripBound ==
    \A n \in 1..MaxSkip :
        (player.current # NoId /\ Len(player.upcoming) >= n
            /\ Len(player.previous) >= n) =>
            SameSession(OnPrevious(OnNext(player, n), n), player)

\* a paused session with a bound track and MaxSkip tracks on either side
C18_Witness ==
    /\ player.current # NoId
    /\ player.paused
    /\ Len(player.upcoming) >= MaxSkip
    /\ Len(player.previous) >= MaxSkip

\* ---------------------------------------------------------------- C19
\* occurrences of track t in the session of p
TrackCount(p, t) ==
    Cardinality({i \in DOMAIN p.previous : p.previous[i] = t})
       + Cardinality({i \in DOMAIN p.upcoming : p.upcoming[i] = t})
       + (IF p.current = t THEN 1 ELSE 0)

\* the states that one transport command of C19 leads to from p
CommandResults(p) ==
    {OnNext(p, n) : n \in 1..MaxSkip} \cup {OnPrevious(p, n) : n \in 1..MaxSkip}
       \cup {OnPlayPause(p), OnForcePlay(p), OnForcePause(p), OnPlus(p),
             OnMinus(p), OnForward(p), OnBackward(p)}

\* C19: session partition: none of Next(n), Previous(n), PlayPause,
\* ForcePlay, ForcePause, Plus, Minus, Forward, Backward changes the multiset
\* of the tracks of Previous, Current and Upcoming together, in any state that
\* sequences of commands reach.
C19_SessionPartition ==
    \A q \in CommandResults(player) :
        \A t \in Tracks : TrackCount(q, t) = TrackCount(player, t)

\* commands have moved the session: tracks on both sides of a bound track
\* that has been sought into, at a changed volume
C19_Witness ==
    /\ player.current # NoId
    /\ player.previous # <<>>
    /\ player.upcoming # <<>>
    /\ player.elapsed > 0
    /\ player.volume # StartVolume

\* ---------------------------------------------------------------- C20
\* C20: a stale "ready" is ignored: when the Controller receives the "ready"
\* of a track that a reset discarded, sent by a task of the old pool, the
\* Current Slot, the Upcoming Queue and the Previous Stack stay as they are.
C20_StaleReadyIgnored ==
    [][(delivered' = delivered + 1 /\ (delivered + 1) \in stale) =>
          /\ player'.current = player.current
          /\ player'.upcoming = player.upcoming
          /\ player'.previous = player.previous]_vars

\* ---------------------------------------------------------------- C21
\* C21: Cleanup releases the Current Slot and puts the Controller in NoTrack
\* from any state (a track bound, playing or paused, or NoTrack already), and
\* leaves the Upcoming Queue and the Previous Stack exactly as they were.
C21_CleanupFrame ==
    LET q == OnCleanup(player)
    IN  /\ q.current = NoId
        /\ q.upcoming = player.upcoming
        /\ q.previous = player.previous

\* Cleanup has been handled in a session with tracks on both sides: NoTrack
\* with both queues still holding tracks
C21_Witness ==
    /\ player.current = NoId
    /\ player.upcoming # <<>>
    /\ player.previous # <<>>

\* ---------------------------------------------------------------- C22
\* task r is about to post its "ready": s.send(..).unwrap() is its next step
AtSend(r) == r.pc = "c_send" \/ (r.pc = "exists" /\ r.id \in json)

\* the tasks that terminated at a send
Panicked == SumCopies({r \in TaskSet : r.pc = "panicked"})
PanickedNext ==
    LET S == {r \in DOMAIN tasks' : r.pc = "panicked"}
        RECURSIVE Sum(_)
        Sum(T) == IF T = {} THEN 0
                  ELSE LET r == CHOOSE x \in T : TRUE
                       IN  tasks'[r] + Sum(T \ {r})
    IN  Sum(S)

\* C22: channel disconnection is fatal only to the owning task: once the
\* receiver of the Command Bus has been dropped, a worker that tries to post
\* "ready" terminates at that send (nothing is posted) and processes no
\* further track, and a worker terminates only at a send of its own: every
\* other step of a worker leaves the terminated workers as many as they were.
C22_DisconnectFatalToSender ==
    [][rxDropped =>
          /\ bus' = bus
          /\ \A r \in TaskSet :
                (AtSend(r) /\ TaskStep(r)) =>
                    /\ CopiesNext([r EXCEPT !.pc = "panicked"])
                          = Copies([r EXCEPT !.pc = "panicked"]) + 1
                    /\ queue' = queue
          /\ \A r \in TaskSet : r.pc = "panicked" => CopiesNext(r) >= Copies(r)
          /\ PanickedNext # Panicked =>
                \E r \in TaskSet : AtSend(r) /\ TaskStep(r)]_vars

\* one worker has terminated at its send while another, still running, has
\* fetched its own track and is about to send in turn
C22_Witness ==
    /\ rxDropped
    /\ \E r \in TaskSet : r.pc = "panicked" /\ r.kind = "pool"
    /\ \E r \in TaskSet : r.pc = "c_send" /\ r.kind = "pool"

\* ---------------------------------------------------------------- C23
\* the rectangle of the playlist: the frame without its 3 last rows and its
\* 10 last columns; the rows of the playlist are drawn inside its border
InListRect(ev) ==
    /\ ev.frame.x <= ev.column /\ ev.column < ev.frame.x + ev.frame.width - 10
    /\ ev.frame.y <= ev.row /\ ev.row < ev.frame.y + ev.frame.height - 3
OnRow(ev, i) ==
    /\ ev.frame.x < ev.column /\ ev.column < ev.frame.x + ev.frame.width - 11
    /\ ev.row = ev.frame.y + i
    /\ ev.row < ev.frame.y + ev.frame.height - 4

\* C23: a mouse-down on row y of the rendered playlist sends exactly one
\* command, given by the classification of that row: Skip(k) sends Next(k),
\* Current sends PlayPause, Before(k) sends Previous(k); a Downloading row, a
\* row at or past the number of rows, a click outside the list rectangle and
\* a mouse event that is not a button-down send nothing.
C23_ClickSendsByRow ==
    [][clicks' # clicks =>
          LET ev == mouse'
              sent == SubSeq(bus', Len(bus) + 1, Len(bus'))
          IN  /\ bus' = bus \o sent
              /\ \A i \in 1..(MaxRows + 2) :
                    (ev.kind = "Down" /\ OnRow(ev, i)) =>
                        IF i > Len(musics) THEN sent = <<>>
                        ELSE CASE musics[i].tag = "Skip" ->
                                     sent = <<SoundNext(musics[i].n)>>
                               [] musics[i].tag = "Current" ->
                                     sent = <<PlayPause>>
                               [] musics[i].tag = "Before" ->
                                     sent = <<SoundPrevious(musics[i].n)>>
                               [] musics[i].tag = "Downloading" ->
                                     sent = <<>>
              /\ (ev.kind # "Down" \/ ~InListRect(ev)) => sent = <<>>]_vars

\* a button-down on the second row of a playlist whose second row is
\* Skip(2) has sent Next(2)
C23_Witness ==
    /\ clicks > 0
    /\ mouse.kind = "Down"
    /\ OnRow(mouse, 2)
    /\ Len(musics) = 2
    /\ musics[2] = Skip(2)
    /\ bus = <<SoundNext(2)>>

\* ---------------------------------------------------------------- C24
\* the Force commands among the SoundActions ms
RECURSIVE Forces(_)
Forces(ms) ==
    IF ms = <<>> THEN <<>>
    ELSE (IF Head(ms) \in {ForcePlay, ForcePause} THEN <<Head(ms)>> ELSE <<>>)
            \o Forces(Tail(ms))

SelectedTrack == get(items, selected)[1]

\* a "ready" of v is on the bus after the last Cleanup
ReadyAfterCleanup(b, v) ==
    \E i, j \in 1..Len(b) :
        /\ i < j
        /\ b[i] = Cleanup
        /\ b[j] \in {PlayVideo(v), PlayVideoUnary(v)}

\* the key handler sends Cleanup, then resets, then enqueues
EnterInOrder ==
    /\ (callPc["ui"] = "idle" /\ callPc'["ui"] # "idle") =>
          /\ callPc'["ui"] = "clear"
          /\ bus' = bus \o <<Cleanup>>
          /\ queue' = queue /\ tasks' = tasks /\ inDownload' = inDownload
    /\ (callPc["ui"] = "clear" /\ callPc'["ui"] # "clear") =>
          callPc'["ui"] = "abort" /\ queue' = <<>>
    /\ (callPc["ui"] = "abort" /\ callPc'["ui"] # "abort") =>
          callPc'["ui"] = "inflight"
    /\ (callPc["ui"] = "inflight" /\ callPc'["ui"] # "inflight") =>
          callPc'["ui"] = "flag" /\ inDownload' = <<>>
    /\ (callPc["ui"] = "flag" /\ callPc'["ui"] # "flag") =>
          callPc'["ui"] = "spawn" /\ downloadMore'
    /\ (callPc["ui"] = "spawn" /\ callPc'["ui"] # "spawn") =>
          callPc'["ui"] = "add_check"
    /\ (callPc["ui"] = "add_check" /\ callPc'["ui"] # "add_check") =>
          \/ callPc'["ui"] = "add_push" /\ bus' = bus /\ queue' = queue
          \/ callPc'["ui"] = "idle" /\ bus' = bus \o <<PlayVideo(SelectedTrack)>>
    /\ (callPc["ui"] = "add_push" /\ callPc'["ui"] # "add_push") =>
          callPc'["ui"] = "idle" /\ queue' = Append(queue, SelectedTrack)

\* C25 as stated: pressing Enter on an existing item sends Cleanup, then
\* performs the download reset, then enqueues the selected track, in that
\* order; when the key handler returns, the Pending Queue holds no track
\* enqueued before the reset, and the selected track is in the Pending Queue
\* or has a "ready" on the bus after the Cleanup.
C25_EnterOrdered ==
    [][/\ EnterInOrder
       /\ returns' # returns =>
             /\ \A i \in 1..Len(queue) : queue[i] = SelectedTrack
             /\ \/ InSeq(queue, SelectedTrack)
                \/ ReadyAfterCleanup(bus, SelectedTrack)]_vars

\* C25 amended: the same order; when the key handler returns, the Pending
\* Queue holds no track enqueued before the reset, and the selected track is
\* in the Pending Queue, or has been taken from it by a worker since it was
\* enqueued, or has a "ready" on the bus after the Cleanup: it is in the
\* queue or announced when add() is done, and until the handler returns
\* only the take() of a worker removes it from the queue.
C25_EnterOrderedTaken ==
    [][/\ EnterInOrder
       /\ (callPc["ui"] \in {"add_check", "add_push"} /\ callPc'["ui"] = "idle") =>
             \/ InSeq(queue', SelectedTrack)
             \/ ReadyAfterCleanup(bus', SelectedTrack)
       /\ (PendingReturn /\ InSeq(queue, SelectedTrack)
              /\ ~InSeq(queue', SelectedTrack)) =>
             \E r \in TaskSet :
                 /\ r.pc = "take"
                 /\ TaskStep(r)
                 /\ CopiesNext([r EXCEPT !.pc = "exists", !.id = SelectedTrack])
                       > Copies([r EXCEPT !.pc = "exists", !.id = SelectedTrack])
       /\ returns' # returns =>
             \A i \in 1..Len(queue) : queue[i] = SelectedTrack]_vars

\* the handler has returned after a worker took the selected track from the
\* Pending Queue: the track is in flight, not pending and not announced
C25_Witness ==
    /\ returns = 1
    /\ queue = <<>>
    /\ ~ReadyAfterCleanup(bus, SelectedTrack)
    /\ InSeq(inDownload, SelectedTrack)

\* ---------------------------------------------------------------- C26
\* C26: cache consistency of completed entries: in every reachable state the
\* media file of an identity exists if its sidecar exists, and no step of a
\* worker, of a unary task or of the cleanup deletes the media file of an
\* identity whose sidecar is present, a task whose fetch of that identity
\* fails after another task committed it included.
C26_SidecarHasMedia ==
    [][/\ \A v \in json' : v \in mp4'
       /\ \A v \in json : v \in mp4 => v \in mp4']_vars

\* ---------------------------------------------------------------- C27
\* C27: downloads-enabled gate: while DOWNLOAD_MORE is false no pool worker
\* pops from the Pending Queue or starts a fetch, and no step of a worker
\* changes the Pending Queue; clean() stores true.
C27_DownloadsGate ==
    [][/\ ~downloadMore =>
             \A r \in TaskSet :
                 (r.kind = "pool" /\ TaskStep(r)) =>
                     /\ queue' = queue
                     /\ r.pc # "push"
       /\ (callPc["ui"] = "flag" /\ callPc'["ui"] # "flag") => downloadMore']_vars

\* ---------------------------------------------------------------------
\* C28
\* ---------------------------------------------------------------------

\* the answers of the DeviceLost screen after which the active screen is s
ChangesScreenTo(s) ==
    {<<ChangeState(s)>>} \cup
        (IF s = "MusicPlayer" THEN {<<PassTo("MusicPlayer", RestartPlayer)>>} ELSE {})

\* a step of the loop that handled a message none of the arms PassTo, Quit and
\* ChangeState takes
UnroutedStep == nMsgs' # nMsgs /\ last'.msg \in Unrouted

\* C28 as stated: only Quit ends the manager loop: a step that ends the loop
\* handled Quit, handle_manager_message returns true only for Quit, and an
\* unrouted message is delivered to the DeviceLost screen as an Error, does not
\* end the loop and leaves the active screen unchanged.
C28_OnlyQuitEnds ==
    [][/\ (loopPc = "run" /\ loopPc' = "ended") => last'.msg.type = "Quit"
       /\ (nMsgs' # nMsgs /\ last'.ret) => last'.msg.type = "Quit"
       /\ UnroutedStep =>
              /\ errs' = errs + 1
              /\ loopPc' = "run"
              /\ screen' = screen]_vars

\* C28 amended: among the manager messages only Quit ends the loop, which
\* also ends on Ctrl+C and Ctrl+D; handle_manager_message returns true only
\* for Quit; an unrouted message is delivered to the DeviceLost screen as an
\* Error and does not end the loop, and the active screen changes with it only
\* when the DeviceLost screen answers the Error with a message that changes it.
C28_QuitOrBreakEnds ==
    [][/\ (loopPc = "run" /\ loopPc' = "ended") =>
              last'.msg.type \in {"Quit", "CtrlC"}
       /\ (nMsgs' # nMsgs /\ last'.ret) => last'.msg.type = "Quit"
       /\ UnroutedStep =>
              /\ errs' = errs + 1
              /\ loopPc' = "run"
              /\ screen' # screen => last'.resp \in ChangesScreenTo(screen')]_vars

\* an unrouted message was handled whose Error the DeviceLost screen answered
\* with Quit: the loop goes on, on the screen it was on
C28_Witness ==
    /\ last.msg \in Unrouted
    /\ last.resp = <<Quit>>
    /\ errs > 0
    /\ loopPc = "run"
    /\ screen = "Playlist"

\* ---------------------------------------------------------------------
\* C29
\* ---------------------------------------------------------------------

\* selected designates an item of the current result list
OnItem == selected < Len(items)

\* a step that is Enter on the search screen acting: its first effect
EnterActs == callPc["ui"] = "idle" /\ callPc'["ui"] = "clear"

\* C29: Enter on the search screen acts only on an existing item: an Enter
\* pressed while the selected index designates no item of the current result
\* list sends no Cleanup, performs no download reset, enqueues nothing and does
\* not change the screen; and the Enter that acts starts a session on the item
\* of the current list that the index designates.
C29_EnterOnlyOnItem ==
    [][/\ misses' # misses =>
              /\ ~OnItem
              /\ bus' = bus
              /\ queue' = queue
              /\ inDownload' = inDownload
              /\ downloadMore' = downloadMore
              /\ tasks' = tasks
              /\ callPc' = callPc
              /\ screen' = screen
       /\ EnterActs =>
              /\ OnItem
              /\ callId'["ui"] = items[selected + 1]
       /\ (AtSearch /\ ~OnItem) => CleanupCount' = CleanupCount]_vars

\* Enter was pressed on an index chosen in a list of two that a search task
\* has cleared since: nothing was sent and the search screen is still active
C29_Witness ==
    /\ misses > 0
    /\ selected = 1
    /\ items = <<>>
    /\ bus = <<>>
    /\ queue = <<>>
    /\ screen = "Search"

====
